---- MODULE Spec2Model ----
(***************************************************************************)
(* Appliance availability resolver: the session cache, the login flows and *)
(* the three vendor adapters (BSH OData, SubZero cart, Miele spreadsheet)  *)
(* as a state machine of concurrently running resolves.  Every await point *)
(* of the Rust code is one action; the remote servers, the cache files and *)
(* the workbook file are the shared environment.                           *)
(***************************************************************************)
EXTENDS Integers, Sequences, FiniteSets, TLC

VARIABLES
    pc,         \* pc[p]: position of resolve p in its adapter
    req,        \* req[p]: the AvailabilityRequest being resolved
    tok,        \* tok[p]: cookie jar of the decoded session claims, or NoneVal
    trace,      \* trace[p]: history of the calls p has issued, in order
    outcome,    \* outcome[p]: "running" | "ok" (a String) | "err" (Err) | "panic"
    result,     \* result[p]: the returned string / error message
    csrf,       \* csrf[p]: value of x_csrf_token (bsh.rs:67)
    nitems,     \* nitems[p]: number_of_items (subzero.rs:52)
    validated,  \* validated[p]: req.model_number after validation (subzero.rs:59)
    pending,    \* pending[p]: bytes a login or download is about to write
    cacheFile,  \* cacheFile[v]: content of <v>_cookies.json
    cart,       \* the remote SubZero cart of the session, a sequence of rows
    xlsx,       \* content of miele_appliance_availability.xlsx
    workload,   \* the vendor whose resolves this run is about
    probe       \* a pure function of the code applied to one input: [fn, arg, out]

vars == <<pc, req, tok, trace, outcome, result, csrf, nitems, validated,
          pending, cacheFile, cart, xlsx, workload, probe>>

\* ------------------------------------------------------------------ bounds

\* Largest number of rows the remote cart holds before the resolves start.
MaxCart == 3
\* The same bound where two resolves run concurrently.
MaxCartConcurrent == 1
\* How many delete POSTs of one resolve the server may accept without effect.
MaxNoEffect == 1

\* ------------------------------------------------------------- basic values

Procs == {"r1", "r2"}
NoneVal == "None"
SessionVendors == {"bsh", "subzero"}
Vendors == {"bsh", "subzero", "miele"}
\* The resolves of one run are for one vendor (or for none): resolves for
\* different vendors share no file, no session and no remote state.
\* Cookie jars a session record can hold: one whose name=value pairs form a
\* legal header value and one holding a byte HeaderValue::from_str rejects.
Jars == {"jar", "jarCtl"}

\* Each resolve asks for its own model number, so that cart rows can be told apart.
ModelOf(p) == IF p = "r1" THEN "M1" ELSE "M2"
Requests(p) ==
    [manufacturer : {workload, "other", NoneVal},
     model_number : {NoneVal, ModelOf(p)},
     warehouse    : {NoneVal, "W"}]
NoRequest == [manufacturer |-> NoneVal, model_number |-> NoneVal, warehouse |-> NoneVal]

\* A result string is a sequence of tokens; a fixed message is one token.
Msg(s) == <<s>>

\* --------------------------------------------------------- session cache file

\* What <vendor>_cookies.json can hold.  "missing": File::open fails;
\* "empty": created and not yet written; "notjson": not JSON; "notoken": JSON
\* without a string field token; "baddecode": the token does not decode.
FileKinds == {"missing", "empty", "notjson", "notoken", "baddecode", "valid"}
NoFile == [kind |-> "missing", jar |-> NoneVal]
EmptyFile == [kind |-> "empty", jar |-> NoneVal]
BadFile(k) == [kind |-> k, jar |-> NoneVal]
ValidFile(j) == [kind |-> "valid", jar |-> j]
FileContents ==
    {BadFile(k) : k \in FileKinds \ {"valid"}} \cup {ValidFile(j) : j \in Jars}

\* Mutant: the result of decode is taken as claims without looking at it.
GetTokenUncheckedDecode(f) ==
    IF f.kind \in {"valid", "baddecode"}
    THEN [ok |-> TRUE, jar |-> f.jar, err |-> ""]
    ELSE [ok |-> FALSE, jar |-> NoneVal, err |-> "Failed to open or parse"]
\* get_bsh_token / get_subzero_token: Ok(claims) or Err(message).
GetToken(f) ==
    CASE f.kind = "missing"   -> [ok |-> FALSE, jar |-> NoneVal, err |-> "Failed to open"]
      [] f.kind = "empty"     -> [ok |-> FALSE, jar |-> NoneVal, err |-> "Failed to parse"]
      [] f.kind = "notjson"   -> [ok |-> FALSE, jar |-> NoneVal, err |-> "Failed to parse"]
      [] f.kind = "notoken"   -> [ok |-> FALSE, jar |-> NoneVal, err |-> "Failed to get token"]
      [] f.kind = "baddecode" -> [ok |-> FALSE, jar |-> NoneVal, err |-> "decode"]
      [] f.kind = "valid"     -> [ok |-> TRUE, jar |-> f.jar, err |-> ""]

\* HeaderValue::from_str(&cookies) on the header built from the jar.
HeaderOk(j) == j = "jar"

\* ------------------------------------------------------------ trace helpers

Ev(o, r) == [op |-> o, res |-> r]
Log(p, e) == trace' = [trace EXCEPT ![p] = Append(@, e)]
Count(p, o) == Cardinality({i \in 1..Len(trace[p]) : trace[p][i].op = o})
\* The HTTP requests an adapter sends to its vendor once it holds a session.
VendorOps == {"get", "post", "count", "delete", "validate", "add", "download"}
VendorCalls(p) == Cardinality({i \in 1..Len(trace[p]) : trace[p][i].op \in VendorOps})

VendorOf(p) == req[p].manufacturer

Finish(p, kind, msg) ==
    /\ pc' = [pc EXCEPT ![p] = "done"]
    /\ outcome' = [outcome EXCEPT ![p] = kind]
    /\ result' = [result EXCEPT ![p] = msg]
Goto(p, l) ==
    /\ pc' = [pc EXCEPT ![p] = l]
    /\ UNCHANGED <<outcome, result>>

\* ------------------------------------------------- strings as char sequences

\* Characters that matter to the BSH post-processing: NL and CR are the
\* control characters, BS the backslash, QT the double quote, SP the space,
\* U2 a character whose UTF-8 encoding takes two bytes.
NL == "NL"
CR == "CR"
BS == "BS"
QT == "QT"
SP == "SP"
U2 == "U2"
Chars == {"1", "n", "r", SP, NL, CR, BS, QT, U2}

RECURSIVE Flatten(_)
Flatten(ss) == IF ss = <<>> THEN <<>> ELSE Head(ss) \o Flatten(Tail(ss))

\* str::replace(pat, "") for a two-character pattern: non-overlapping matches,
\* found left to right, are removed.
RECURSIVE RemovePair(_, _, _)
RemovePair(s, a, b) ==
    IF Len(s) < 2 THEN s
    ELSE IF s[1] = a /\ s[2] = b THEN RemovePair(SubSeq(s, 3, Len(s)), a, b)
    ELSE <<s[1]>> \o RemovePair(Tail(s), a, b)
\* str::replace(ch, "") for one character.
RemoveChar(s, c) == SelectSeq(s, LAMBDA x : x # c)
ContainsChar(s, c) == \E i \in 1..Len(s) : s[i] = c
ContainsPair(s, a, b) == \E i \in 1..(Len(s) - 1) : s[i] = a /\ s[i + 1] = b

\* String::len(): the length in bytes of the UTF-8 encoding.
RECURSIVE ByteLen(_)
ByteLen(s) ==
    IF s = <<>> THEN 0
    ELSE (IF Head(s) = U2 THEN 2 ELSE 1) + ByteLen(Tail(s))

\* A JSON value found at d.SOSimulateToItem.results[0].AvailBackorder: the
\* path indexes a serde_json::Value, which yields Null when a step is absent.
JNull == [t |-> "null", s |-> <<>>]
JStr(s) == [t |-> "str", s |-> s]

\* serde_json's Display for a Value (Value::to_string): the JSON text of the
\* value.  A string is written between double quotes with ", \ and the
\* control characters escaped; null is written as the four letters.
EscapeChar(c) ==
    CASE c = NL -> <<BS, "n">>
      [] c = CR -> <<BS, "r">>
      [] c = BS -> <<BS, BS>>
      [] c = QT -> <<BS, QT>>
      [] OTHER  -> <<c>>
ValueToString(v) ==
    IF v.t = "null" THEN <<"n", "u", "l", "l">>
    ELSE <<QT>> \o Flatten([i \in 1..Len(v.s) |-> EscapeChar(v.s[i])]) \o <<QT>>

MinAvailLen == 10
NotFoundSentinel == Msg("Model availablility not found.")

\* bsh.rs:150-168 on the text of the field.
StripNewlines(a) ==
    IF ContainsPair(a, BS, "n") \/ ContainsChar(a, NL)
    THEN RemoveChar(RemovePair(a, BS, "n"), NL) ELSE a
StripReturns(a) ==
    IF ContainsPair(a, BS, "r") \/ ContainsChar(a, CR)
    THEN RemoveChar(RemovePair(a, BS, "r"), CR) ELSE a
StripSpaces(a) == IF ContainsChar(a, SP) THEN RemoveChar(a, SP) ELSE a
BshClean(a) == StripSpaces(StripReturns(StripNewlines(a)))
BshThreshold(a) == IF ByteLen(a) < MinAvailLen THEN NotFoundSentinel ELSE a
\* bsh.rs:148-170: from the JSON value of the field to the returned string.
BshPostProcess(v) == BshThreshold(BshClean(ValueToString(v)))

\* ------------------------------------------------------------------ resolve

\* lib.rs:333-365 get_availability: dispatch on the manufacturer.  The two
\* session vendors first fetch their credentials from the key vault, and a
\* failure there is returned as Err before the adapter is called.
StartWith(p, requests) ==
    /\ pc[p] = "idle"
    /\ \E r \in requests, secretsOk \in BOOLEAN :
        /\ req' = [req EXCEPT ![p] = r]
        /\ IF r.manufacturer \in SessionVendors
           THEN IF secretsOk
                THEN Goto(p, "read1") /\ Log(p, Ev("secret", "ok"))
                ELSE /\ Finish(p, "err", Msg("Faild to get credentials."))
                     /\ Log(p, Ev("secret", "err"))
           ELSE IF r.manufacturer = "miele"
                THEN Goto(p, "mi_get") /\ UNCHANGED trace
                ELSE Finish(p, "ok", Msg("availability unset")) /\ UNCHANGED trace
    /\ UNCHANGED <<tok, csrf, nitems, validated, pending, cacheFile, cart, xlsx, workload, probe>>

\* What a cache read is remembered by: what it returned and what the file held.
ReadRes(t, f) == [got |-> IF t.ok THEN "ok" ELSE "absent", file |-> f.kind]

Start(p) == StartWith(p, Requests(p))

\* Where an adapter continues once it holds the session claims.
AfterSession(v) == IF v = "bsh" THEN "bsh_get" ELSE "sz_count"

\* bsh.rs:27-30, subzero.rs:27-30: the first read of the cache.
Read1(p) ==
    /\ pc[p] = "read1"
    /\ LET t == GetToken(cacheFile[VendorOf(p)]) IN
        /\ Log(p, Ev("read", ReadRes(t, cacheFile[VendorOf(p)])))
        /\ tok' = [tok EXCEPT ![p] = t.jar]
        /\ Goto(p, IF t.ok THEN AfterSession(VendorOf(p)) ELSE "login")
    /\ UNCHANGED <<req, csrf, nitems, validated, pending, cacheFile, cart, xlsx, workload, probe>>

\* Mutant: the error of login is dropped and the cache is read again.
LoginFailSwallowed(p, msg) == Goto(p, "read2")
\* How a failure inside login ends the resolve: bsh_login returns Err, which
\* bsh.rs:31 propagates with `?`; subzero_login unwraps, which panics.
LoginFail(p, msg) ==
    IF VendorOf(p) = "bsh" THEN Finish(p, "err", Msg(msg))
    ELSE Finish(p, "panic", Msg(msg))

\* bsh.rs:197-215, subzero.rs:363-421: the login up to the encoded token.
\* "step": the browser or the logon POST fails; "nocookies": no cookie is
\* handed back (bsh.rs:219-220 returns Ok(false), subzero.rs:420 skips the
\* write); "encode": the claims cannot be encoded; otherwise a jar is held.
LoginOutcomes == {"step", "nocookies", "encode", "cookies"}
Login(p) ==
    /\ pc[p] = "login"
    /\ \E o \in LoginOutcomes :
        /\ Log(p, Ev("login", o))
        /\ CASE o = "step"      -> LoginFail(p, "login step failed") /\ UNCHANGED pending
             [] o = "encode"    -> LoginFail(p, "Faild to encode Token.") /\ UNCHANGED pending
             [] o = "nocookies" -> Goto(p, "read2") /\ UNCHANGED pending
             [] OTHER           -> Goto(p, "create") /\ pending' = [pending EXCEPT ![p] = "jar"]
    /\ UNCHANGED <<req, tok, csrf, nitems, validated, cacheFile, cart, xlsx, workload, probe>>

\* bsh.rs:216, subzero.rs:422: File::create truncates the cache file.
LoginCreate(p) ==
    /\ pc[p] = "create"
    /\ \E ok \in BOOLEAN :
        IF ok
        THEN /\ cacheFile' = [cacheFile EXCEPT ![VendorOf(p)] = EmptyFile]
             /\ Log(p, Ev("create", "ok"))
             /\ Goto(p, "write")
        ELSE /\ LoginFail(p, "Failed to create cookies.json")
             /\ Log(p, Ev("create", "err"))
             /\ UNCHANGED cacheFile
    /\ UNCHANGED <<req, tok, csrf, nitems, validated, pending, cart, xlsx, workload, probe>>

\* What the file holds after write_all put the record of jar at offset 0 of
\* the handle File::create returned.  The file is empty unless another login
\* wrote its record after this handle's create; the write then replaces the
\* first bytes only, and when the other record is the longer one its last
\* bytes stay behind the new record, which does not parse.
WriteAtStart(f, jar) ==
    IF f.kind = "valid" THEN {ValidFile(jar), BadFile("notjson")} ELSE {ValidFile(jar)}
\* bsh.rs:217, subzero.rs:423: write_all of the record.
LoginWrite(p) ==
    /\ pc[p] = "write"
    /\ \E ok \in BOOLEAN :
        IF ok
        THEN /\ \E f \in WriteAtStart(cacheFile[VendorOf(p)], pending[p]) :
                    cacheFile' = [cacheFile EXCEPT ![VendorOf(p)] = f]
             /\ Log(p, Ev("write", "ok"))
             /\ Goto(p, "read2")
        ELSE /\ LoginFail(p, "Failed to write cookies.json")
             /\ Log(p, Ev("write", "err"))
             /\ UNCHANGED cacheFile
    /\ UNCHANGED <<req, tok, csrf, nitems, validated, pending, cart, xlsx, workload, probe>>

\* bsh.rs:35, subzero.rs:34: the message returned when the cache is still
\* absent after login.
StillAbsentMsg(v) ==
    IF v = "bsh" THEN Msg("Faild to login to BSH website") ELSE Msg("Failed to get SubZero token")

\* Mutant: a cache that is still absent sends the resolve back to login.
Read2Retry(p) ==
    /\ pc[p] = "read2"
    /\ LET t == GetToken(cacheFile[VendorOf(p)]) IN
        /\ Log(p, Ev("read", ReadRes(t, cacheFile[VendorOf(p)])))
        /\ tok' = [tok EXCEPT ![p] = t.jar]
        /\ Goto(p, IF t.ok THEN AfterSession(VendorOf(p)) ELSE "login")
    /\ UNCHANGED <<req, csrf, nitems, validated, pending, cacheFile, cart, xlsx, workload, probe>>
\* Mutant: a cache that is still absent is returned as an error.
Read2Fatal(p) ==
    /\ pc[p] = "read2"
    /\ LET t == GetToken(cacheFile[VendorOf(p)]) IN
        /\ Log(p, Ev("read", ReadRes(t, cacheFile[VendorOf(p)])))
        /\ tok' = [tok EXCEPT ![p] = t.jar]
        /\ IF t.ok THEN Goto(p, AfterSession(VendorOf(p)))
           ELSE Finish(p, "err", StillAbsentMsg(VendorOf(p)))
    /\ UNCHANGED <<req, csrf, nitems, validated, pending, cacheFile, cart, xlsx, workload, probe>>
\* bsh.rs:32-37, subzero.rs:32-35: the cache is read again after login.
Read2(p) ==
    /\ pc[p] = "read2"
    /\ LET t == GetToken(cacheFile[VendorOf(p)]) IN
        /\ Log(p, Ev("read", ReadRes(t, cacheFile[VendorOf(p)])))
        /\ tok' = [tok EXCEPT ![p] = t.jar]
        /\ IF t.ok THEN Goto(p, AfterSession(VendorOf(p)))
           ELSE Finish(p, "ok", StillAbsentMsg(VendorOf(p)))
    /\ UNCHANGED <<req, csrf, nitems, validated, pending, cacheFile, cart, xlsx, workload, probe>>

\* --------------------------------------------------------------------- BSH

Ones(k) == [i \in 1..k |-> "1"]
\* Field values the portal answers with in the resolve model: no field, a
\* ten character date, and the three characters of N/A.
BshFieldValues == {JNull, JStr(Ones(10)), JStr(Ones(3))}

\* bsh.rs:51-79: the cookie header, then the GET of the service root.  A
\* response without the x-csrf-token header makes the closure return
\* Ok(message), which `?` unwraps: the message becomes the token.
BshGetOutcomes == {"sendErr", "noHeader", "badHeader", "token"}
\* A request of the BSH adapter is remembered with the session whose cookie
\* header it carried (bsh.rs:56-59 for the GET, bsh.rs:107-110 for the POST,
\* both from the local `cookies`).
EvHdr(o, r, jar) == [op |-> o, res |-> r, hdr |-> jar]
\* An adapter that sends the GET again when it failed in transport.
BshGetRetry(p) ==
    /\ pc[p] = "bsh_get"
    /\ IF ~HeaderOk(tok[p])
       THEN /\ Finish(p, "ok", Msg("Failed to create cookie header"))
            /\ UNCHANGED <<trace, csrf>>
       ELSE \E o \in BshGetOutcomes :
            /\ Log(p, EvHdr("get", o, tok[p]))
            /\ IF o = "sendErr"
               THEN Goto(p, "bsh_get") /\ UNCHANGED csrf
               ELSE /\ Goto(p, "bsh_post")
                    /\ csrf' = [csrf EXCEPT ![p] = "csrf-token"]
    /\ UNCHANGED <<req, tok, nitems, validated, pending, cacheFile, cart, xlsx, workload, probe>>
BshGet(p) ==
    /\ pc[p] = "bsh_get"
    /\ IF ~HeaderOk(tok[p])
       THEN /\ Finish(p, "ok", Msg("Failed to create cookie header"))
            /\ UNCHANGED <<trace, csrf>>
       ELSE \E o \in BshGetOutcomes :
            /\ Log(p, EvHdr("get", o, tok[p]))
            /\ IF o = "sendErr"
               THEN Finish(p, "ok", Msg("Failed to get x_csrf_token: e")) /\ UNCHANGED csrf
               ELSE /\ Goto(p, "bsh_post")
                    /\ csrf' = [csrf EXCEPT ![p] =
                          CASE o = "noHeader"  -> "Failed to get x_csrf_token"
                            [] o = "badHeader" -> "Failed to convert x_csrf_token to string"
                            [] OTHER           -> "csrf-token"]
    /\ UNCHANGED <<req, tok, nitems, validated, pending, cacheFile, cart, xlsx, workload, probe>>

\* bsh.rs:81-171: the headers of the POST, the POST, its body and the
\* post-processing of the field.
BshPostOutcomes == {"dataHeaderErr", "sendErr", "textErr", "parseErr"}
\* An adapter that returns the failures of the simulate POST as Err.
BshPostFatal(p) ==
    /\ pc[p] = "bsh_post"
    /\ \/ \E o \in BshPostOutcomes :
            /\ IF o = "dataHeaderErr" THEN UNCHANGED trace ELSE Log(p, EvHdr("post", o, tok[p]))
            /\ Finish(p, "err", Msg("Failed to get availability response"))
       \/ \E v \in BshFieldValues :
            /\ Log(p, EvHdr("post", "json", tok[p]))
            /\ Finish(p, "ok", BshPostProcess(v))
    /\ UNCHANGED <<req, tok, csrf, nitems, validated, pending, cacheFile, cart, xlsx, workload, probe>>
BshPost(p) ==
    /\ pc[p] = "bsh_post"
    /\ \/ \E o \in BshPostOutcomes :
            /\ IF o = "dataHeaderErr" THEN UNCHANGED trace ELSE Log(p, EvHdr("post", o, tok[p]))
            /\ Finish(p, "ok",
                  CASE o = "dataHeaderErr" -> Msg("Failed to create data header")
                    [] o = "sendErr"       -> Msg("Failed to get availability response")
                    [] o = "textErr"       -> Msg("Failed to get availability response text")
                    [] OTHER               -> Msg("Failed to parse availability response text"))
       \/ \E v \in BshFieldValues :
            /\ Log(p, EvHdr("post", "json", tok[p]))
            /\ Finish(p, "ok", BshPostProcess(v))
    /\ UNCHANGED <<req, tok, csrf, nitems, validated, pending, cacheFile, cart, xlsx, workload, probe>>

\* ----------------------------------------------------------------- SubZero

\* A row of the remote cart: the item it was added for.  `by` records which
\* resolve added it ("old": it was in the cart before), for the properties.
Row(i, b) == [item |-> i, by |-> b]
OldRow == Row(<<"OLD">>, "old")
\* Items the order portal accepts in an Add.
Catalog == {<<"M1">>, <<"M2">>}
\* The ship-availability cell (index 7) of a cart row.
Cell7(row) == <<"date of">> \o row.item

\* subzero.rs:104-179 subzero_get_number_of_items, and the loop test and the
\* model number test that follow it (subzero.rs:53, 59-62).  Every failure
\* returns 0.
SzCountOutcomes == {"sendErr", "textErr", "noTable", "rows"}
CountValue(o) == IF o = "rows" THEN Len(cart) ELSE 0
\* Mutant: the loop test is n > 1.
AfterCountOffByOne(p, n) ==
    IF n > 1 THEN Goto(p, "sz_remove")
    ELSE IF req[p].model_number = NoneVal
         THEN Finish(p, "ok", Msg("No model number provided"))
         ELSE Goto(p, "sz_validate")
AfterCount(p, n) ==
    IF n > 0 THEN Goto(p, "sz_remove")
    ELSE IF req[p].model_number = NoneVal
         THEN Finish(p, "ok", Msg("No model number provided"))
         ELSE Goto(p, "sz_validate")
SzCount(p) ==
    /\ pc[p] = "sz_count"
    /\ IF ~HeaderOk(tok[p])
       THEN /\ nitems' = [nitems EXCEPT ![p] = 0]
            /\ UNCHANGED trace
            /\ AfterCount(p, 0)
       ELSE \E o \in SzCountOutcomes :
            /\ nitems' = [nitems EXCEPT ![p] = CountValue(o)]
            /\ Log(p, Ev("count", [n |-> CountValue(o), read |-> o = "rows"]))
            /\ AfterCount(p, CountValue(o))
    /\ UNCHANGED <<req, tok, csrf, validated, pending, cacheFile, cart, xlsx, workload, probe>>

\* subzero.rs:188-219 subzero_remove_item: delete the row at index 0.  The
\* status of the response is not looked at, so the server may have left the
\* cart as it was.
NoEffects(p) ==
    Cardinality({i \in 1..Len(trace[p]) :
                    trace[p][i].op = "delete" /\ trace[p][i].res = "noEffect"})
SzRemove(p) ==
    /\ pc[p] = "sz_remove"
    /\ IF ~HeaderOk(tok[p])
       THEN Goto(p, "sz_count") /\ UNCHANGED <<trace, cart>>
       ELSE \/ /\ Log(p, Ev("delete", "sendErr"))
               /\ Finish(p, "panic", Msg("Failed to remove item from cart"))
               /\ UNCHANGED cart
            \/ /\ Log(p, Ev("delete", "deleted"))
               /\ cart' = IF cart = <<>> THEN cart ELSE Tail(cart)
               /\ Goto(p, "sz_count")
            \/ /\ NoEffects(p) < MaxNoEffect
               /\ Log(p, Ev("delete", "noEffect"))
               /\ UNCHANGED cart
               /\ Goto(p, "sz_count")
    /\ UNCHANGED <<req, tok, csrf, nitems, validated, pending, cacheFile, xlsx, workload, probe>>

\* An extraction that cuts at the last brace instead of the first.
RECURSIVE BeforeLastBrace(_)
BeforeLastBrace(b) ==
    IF b = <<>> THEN <<>>
    ELSE IF b[Len(b)] = "{" THEN SubSeq(b, 1, Len(b) - 1)
    ELSE IF \E i \in 1..Len(b) : b[i] = "{" THEN BeforeLastBrace(SubSeq(b, 1, Len(b) - 1))
    ELSE b
\* subzero.rs:349: the text before the first `{` of the body.
RECURSIVE BeforeBrace(_)
BeforeBrace(b) ==
    IF b = <<>> \/ Head(b) = "{" THEN <<>>
    ELSE <<Head(b)>> \o BeforeBrace(Tail(b))
\* Bodies the autosuggest endpoint answers with for model number m.
SuggestBodies(m) == {<<m, "{", "j">>, <<"{", "j">>, <<m>>}

\* subzero.rs:308-355 subzero_validate_model_number: every failure returns
\* its message as the value, which subzero.rs:59-60 stores as the model number.
SzValidate(p) ==
    /\ pc[p] = "sz_validate"
    /\ IF ~HeaderOk(tok[p])
       THEN /\ validated' = [validated EXCEPT ![p] = Msg("Faild to add cookies to header")]
            /\ UNCHANGED trace
       ELSE \/ /\ Log(p, Ev("validate", "err"))
               /\ validated' = [validated EXCEPT ![p] = Msg("Failed to get suggested items")]
            \/ \E b \in SuggestBodies(req[p].model_number) :
               /\ Log(p, Ev("validate", "body"))
               /\ validated' = [validated EXCEPT ![p] = BeforeBrace(b)]
    /\ Goto(p, "sz_add")
    /\ UNCHANGED <<req, tok, csrf, nitems, pending, cacheFile, cart, xlsx, workload, probe>>

\* The cart after the server handled an Add of item i sent by p.
CartAfterAdd(p, i) == IF i \in Catalog THEN Append(cart, Row(i, p)) ELSE cart
\* subzero.rs:283-305: the cell at index 7, each row overwriting the last.
RECURSIVE LastCell7(_, _)
LastCell7(rows, acc) ==
    IF rows = <<>> THEN acc ELSE LastCell7(Tail(rows), Cell7(Head(rows)))
ErrorFindingItem == Msg("Error finding item.")

\* An Add that sends the model number of the request as it came in.
AddItemOriginal(p) == <<req[p].model_number>>
\* subzero.rs:65-66: the item of the Add is req.model_number, which
\* subzero.rs:59-60 has replaced by the string validate returned.
AddItem(p) == validated[p]
\* subzero.rs:232-306 subzero_add_item.
SzAdd(p) ==
    /\ pc[p] = "sz_add"
    /\ IF ~HeaderOk(tok[p])
       THEN /\ Finish(p, "ok", Msg("Faild to add cookies to header"))
            /\ UNCHANGED <<trace, cart>>
       ELSE \/ /\ Log(p, Ev("add", [o |-> "sendErr", item |-> AddItem(p), before |-> cart, rows |-> <<>>]))
               /\ Finish(p, "ok", Msg("Failed to add item to cart"))
               /\ UNCHANGED cart
            \/ /\ Log(p, Ev("add", [o |-> "textErr", item |-> AddItem(p), before |-> cart, rows |-> <<>>]))
               /\ cart' = CartAfterAdd(p, AddItem(p))
               /\ Finish(p, "ok", Msg("Failed to get response data"))
            \/ /\ Log(p, Ev("add", [o |-> "noTable", item |-> AddItem(p), before |-> cart, rows |-> <<>>]))
               /\ UNCHANGED cart
               /\ Finish(p, "ok", ErrorFindingItem)
            \/ /\ cart' = CartAfterAdd(p, AddItem(p))
               /\ Log(p, Ev("add", [o |-> "table", item |-> AddItem(p), before |-> cart, rows |-> cart']))
               /\ Finish(p, "ok", LastCell7(cart', ErrorFindingItem))
    /\ UNCHANGED <<req, tok, csrf, nitems, validated, pending, cacheFile, xlsx, workload, probe>>

\* ------------------------------------------------------------------- Miele

Book(k, b) == [kind |-> k, by |-> b]

\* miele.rs:26-32: the download request; a transport failure panics.
MieleGet(p) ==
    /\ pc[p] = "mi_get"
    /\ \/ /\ Log(p, Ev("download", "sendErr"))
          /\ Finish(p, "panic", Msg("Failed to get Miele appliance availability spreadsheet"))
       \/ /\ Log(p, Ev("download", "response"))
          /\ Goto(p, "mi_create")
    /\ UNCHANGED <<req, tok, csrf, nitems, validated, pending, cacheFile, cart, xlsx, workload, probe>>

\* miele.rs:34-39: File::create truncates the workbook at its fixed path.
MieleCreate(p) ==
    /\ pc[p] = "mi_create"
    /\ \/ /\ xlsx' = Book("empty", p)
          /\ Goto(p, "mi_write")
       \/ /\ UNCHANGED xlsx
          /\ Finish(p, "panic", Msg("Failed to create Miele appliance availability spreadsheet"))
    /\ UNCHANGED <<req, tok, trace, csrf, nitems, validated, pending, cacheFile, cart, workload, probe>>

\* miele.rs:40-51: the body is read and written to the file.
MieleWrite(p) ==
    /\ pc[p] = "mi_write"
    /\ \/ \E k \in {"book", "garbage"} :
          /\ xlsx' = Book(k, p)
          /\ Goto(p, "mi_open")
       \/ /\ UNCHANGED xlsx
          /\ Finish(p, "panic", Msg("Failed to write Miele appliance availability spreadsheet"))
    /\ UNCHANGED <<req, tok, trace, csrf, nitems, validated, pending, cacheFile, cart, workload, probe>>

\* miele.rs:53-208: the workbook is opened, then the request is looked at,
\* then the worksheet is read and matched.
MieleMatchOutcomes == {"noSheet", "noRows", "decodeErr", "unknown", "found"}
MieleOpen(p) ==
    /\ pc[p] = "mi_open"
    /\ IF xlsx.kind # "book"
       THEN Finish(p, "panic", Msg("Failed to open Miele appliance availability spreadsheet"))
       ELSE IF req[p].warehouse = NoneVal
       THEN Finish(p, "ok", Msg("No warehouse found."))
       ELSE IF req[p].model_number = NoneVal
       THEN Finish(p, "ok", Msg("No model number found."))
       ELSE \E o \in MieleMatchOutcomes :
            CASE o = "noSheet"   -> Finish(p, "ok", Msg("Error: worksheet"))
              [] o = "noRows"    -> Finish(p, "ok", Msg("Failed to get row from Miele appliance availability spreadsheet."))
              [] o = "decodeErr" -> Finish(p, "panic", Msg("Cannot decode model number."))
              [] o = "unknown"   -> Finish(p, "ok", Msg("Next avalability is unknown."))
              [] OTHER           -> Finish(p, "ok", Msg("Found"))
    /\ UNCHANGED <<req, tok, trace, csrf, nitems, validated, pending, cacheFile, cart, xlsx, workload, probe>>

\* ------------------------------------------------------------ specification

NoProbe == [fn |-> "none", arg |-> <<>>, out |-> <<>>]
OldCart(k) == [i \in 1..k |-> OldRow]

Init ==
    /\ pc = [p \in Procs |-> "idle"]
    /\ req = [p \in Procs |-> NoRequest]
    /\ tok = [p \in Procs |-> NoneVal]
    /\ trace = [p \in Procs |-> <<>>]
    /\ outcome = [p \in Procs |-> "running"]
    /\ result = [p \in Procs |-> <<>>]
    /\ csrf = [p \in Procs |-> NoneVal]
    /\ nitems = [p \in Procs |-> 0]
    /\ validated = [p \in Procs |-> <<>>]
    /\ pending = [p \in Procs |-> NoneVal]
    /\ probe = NoProbe
    /\ workload \in Vendors
    /\ cacheFile \in {f \in [SessionVendors -> FileContents] :
                        \A v \in SessionVendors \ {workload} : f[v] = NoFile}
    /\ cart \in {OldCart(k) : k \in 0..(IF workload = "subzero" THEN MaxCart ELSE 0)}
    /\ xlsx \in {Book("missing", "old")}
               \cup (IF workload = "miele" THEN {Book("book", "old")} ELSE {})

\* One step of a resolve that has started.
Step(p) ==
    \/ Read1(p)
    \/ Login(p)
    \/ LoginCreate(p)
    \/ LoginWrite(p)
    \/ Read2(p)
    \/ BshGet(p)
    \/ BshPost(p)
    \/ SzCount(p)
    \/ SzRemove(p)
    \/ SzValidate(p)
    \/ SzAdd(p)
    \/ MieleGet(p)
    \/ MieleCreate(p)
    \/ MieleWrite(p)
    \/ MieleOpen(p)

\* No other resolve has been called.
Alone(p) == \A q \in Procs \ {p} : pc[q] = "idle"

\* One call of get_availability, by either caller, from any state of the
\* cache file, of the remote cart and of the workbook file.
Next == \E p \in Procs : (Alone(p) /\ Start(p)) \/ Step(p)
Spec == Init /\ [][Next]_vars

\* Two calls that overlap in any way, one after the other included.
InitConcurrent ==
    /\ Init
    /\ \A v \in SessionVendors : cacheFile[v] \in {NoFile, ValidFile("jar")}
    /\ Len(cart) <= MaxCartConcurrent
\* subzero.rs never reads req.warehouse: the concurrent SubZero resolves are
\* not told apart by it.
ConcurrentRequests(p) ==
    {r \in Requests(p) : r.manufacturer = "subzero" => r.warehouse = "W"}
StartConcurrent(p) == StartWith(p, ConcurrentRequests(p))
NextConcurrent == \E p \in Procs : StartConcurrent(p) \/ Step(p)
SpecConcurrent == InitConcurrent /\ [][NextConcurrent]_vars

\* --------------------------------------------------- what a resolve has done

EventsOf(p, ops) == SelectSeq(trace[p], LAMBDA e : e.op \in ops)
ReadsOf(p) == EventsOf(p, {"read"})
Reads(p) == Len(ReadsOf(p))
Logins(p) == Count(p, "login")
Finished(p) == pc[p] = "done"
FirstReadAbsent(p) == Reads(p) >= 1 /\ ReadsOf(p)[1].res.got = "absent"
FirstReadOk(p) == Reads(p) >= 1 /\ ReadsOf(p)[1].res.got = "ok"
SecondReadAbsent(p) == Reads(p) >= 2 /\ ReadsOf(p)[2].res.got = "absent"
\* The key vault did not hand out the credentials (before any session).
SecretsFailed(p) ==
    \E i \in 1..Len(trace[p]) : trace[p][i].op = "secret" /\ trace[p][i].res = "err"
\* Login ended with an error: a browser or logon step, the encoding of the
\* claims, the creation of the cache file or its write failed.
LoginFailed(p) ==
    \E i \in 1..Len(trace[p]) :
        \/ trace[p][i].op = "login" /\ trace[p][i].res \in {"step", "encode"}
        \/ trace[p][i].op \in {"create", "write"} /\ trace[p][i].res = "err"
\* Login returned to the resolve without an error.
LoginReturned(p) ==
    \E i \in 1..Len(trace[p]) :
        \/ trace[p][i].op = "login" /\ trace[p][i].res = "nocookies"
        \/ trace[p][i].op = "write" /\ trace[p][i].res = "ok"

\* ---------------------------------------------------------------- claims

\* C1 (as claimed): every finished resolve has returned a string, unless its
\* login failed; no failure of a vendor call aborts the caller.  (A failure
\* to fetch the credentials happens before any session and is left aside.)
C1_OnlyLoginFailureIsFatal ==
    \A p \in Procs :
        (Finished(p) /\ outcome[p] # "ok") => (LoginFailed(p) \/ SecretsFailed(p))

\* C2 (as claimed): in a finished resolve of a session vendor, a first read
\* that returns a session means no login; a first read that returns Absent
\* means exactly one login and exactly two cache reads.
C2_AbsentMeansLoginAndReread ==
    \A p \in Procs :
        (Finished(p) /\ Reads(p) >= 1) =>
            /\ Logins(p) <= 1 /\ Reads(p) <= 2
            /\ FirstReadOk(p) => Logins(p) = 0
            /\ FirstReadAbsent(p) => (Logins(p) = 1 /\ Reads(p) = 2)

\* C2 (amended): no resolve logs in more than once or reads the cache more
\* than twice; a first read that returns a session means no login and no
\* second read; a first read that returns Absent means exactly one login,
\* followed by exactly one re-read when login returned without error and by
\* none when login failed (the resolve ends with the login failure).
C2_LoginOnceRereadUnlessLoginFailed ==
    \A p \in Procs :
        /\ Logins(p) <= 1 /\ Reads(p) <= 2
        /\ FirstReadOk(p) => (Logins(p) = 0 /\ Reads(p) = 1)
        /\ (Finished(p) /\ FirstReadAbsent(p)) =>
              /\ Logins(p) = 1
              /\ Reads(p) = (IF LoginFailed(p) THEN 1 ELSE 2)
C2_Witness ==
    \E p \in Procs :
        /\ Finished(p) /\ FirstReadAbsent(p) /\ ~LoginFailed(p)
        /\ Logins(p) = 1 /\ Reads(p) = 2

C4_StillAbsentIsAMessage ==
    \A p \in Procs :
        SecondReadAbsent(p) =>
            /\ LoginReturned(p)
            /\ Finished(p)
            /\ outcome[p] = "ok"
            /\ result[p] = StillAbsentMsg(VendorOf(p))
            /\ VendorCalls(p) = 0
C4_Witness ==
    \E p \in Procs :
        SecondReadAbsent(p) /\ LoginReturned(p) /\ VendorOf(p) = "bsh"

\* C5: a cache read of a file that is missing, empty, not JSON, without a
\* string token or with a token that does not decode returns Absent; the
\* resolve goes on to login or returns a message (it does not crash); and no
\* cache read changes the cache file.
C5_ReadsAreAbsentNotCrashes ==
    \A p \in Procs :
        /\ \A i \in 1..Reads(p) :
              ReadsOf(p)[i].res.file # "valid" => ReadsOf(p)[i].res.got = "absent"
        /\ (trace[p] # <<>> /\ trace[p][Len(trace[p])].op = "read"
              /\ trace[p][Len(trace[p])].res.got = "absent") =>
                 \/ pc[p] = "login"
                 \/ Finished(p) /\ outcome[p] = "ok"
C5_BadCacheFileIsAbsent ==
    /\ [] C5_ReadsAreAbsentNotCrashes
    /\ [][\A p \in Procs : (Read1(p) \/ Read2(p)) => cacheFile' = cacheFile]_vars
C5_Witness ==
    \E p \in Procs :
        /\ Reads(p) = 2
        /\ ReadsOf(p)[1].res.file = "baddecode" /\ ReadsOf(p)[1].res.got = "absent"
        /\ ReadsOf(p)[2].res.file = "baddecode" /\ ReadsOf(p)[2].res.got = "absent"

\* C6 (as claimed): a resolve whose model number or whose warehouse is absent
\* sends no request to its vendor.
C6_NoVendorCallWithoutModelAndWarehouse ==
    \A p \in Procs :
        (req[p].manufacturer \in Vendors
            /\ (req[p].model_number = NoneVal \/ req[p].warehouse = NoneVal))
        => VendorCalls(p) = 0

\* The count reads and the deletes of a resolve, in the order it issued them.
DrainOf(p) == EventsOf(p, {"count", "delete"})
AddsOf(p) == EventsOf(p, {"add"})
\* The resolve has left the drain loop of subzero.rs:53-56.
LeftDrain(p) ==
    \/ pc[p] \in {"sz_validate", "sz_add"}
    \/ Finished(p) /\ result[p] = Msg("No model number provided")
    \/ Count(p, "validate") + Count(p, "add") > 0
\* Every count read of p was answered with the cart table (none failed).
AllCountsRead(p) ==
    /\ HeaderOk(tok[p])
    /\ \A i \in 1..Len(DrainOf(p)) :
          DrainOf(p)[i].op = "count" => DrainOf(p)[i].res.read

\* C7: with two resolves on one SubZero session and nothing that keeps their
\* cart sequences apart, a resolve whose count reads all succeeded still
\* finds the cart emptied by its own drain only: every row the cart holds
\* when it issues its Add was added by the other resolve after this resolve's
\* final count read (no old row, no row of its own).  C7_Witness is the
\* interleaving the claim is about.
C7_RowsAtAddComeFromTheOtherResolve ==
    \A p \in Procs :
        \A i \in 1..Len(AddsOf(p)) :
            AllCountsRead(p) =>
                \A k \in 1..Len(AddsOf(p)[i].res.before) :
                    /\ AddsOf(p)[i].res.before[k].by \in Procs \ {p}
                    /\ Len(AddsOf(AddsOf(p)[i].res.before[k].by)) = 1
\* The Add response one resolve parses holds a row of the other resolve,
\* although none of its count reads failed.
C7_Witness ==
    \E p \in Procs :
        /\ AllCountsRead(p)
        /\ Len(AddsOf(p)) = 1
        /\ AddsOf(p)[1].res.o = "table"
        /\ \E k \in 1..Len(AddsOf(p)[1].res.rows) :
              AddsOf(p)[1].res.rows[k].by \in Procs \ {p}

\* C8 (as claimed): whenever the one resolve that runs issues its Add, the
\* remote cart holds no row.
C8_CartEmptyAtAdd ==
    \A p \in Procs :
        \A i \in 1..Len(AddsOf(p)) : AddsOf(p)[i].res.before = <<>>

\* C9: the count reads and deletes of a resolve alternate, starting with a
\* count read; a delete follows only a count above zero and nothing follows
\* a count of zero; once the loop is left the last count is zero and the
\* number of deletes is the number of counts before it (k deletes for a
\* first zero at position k).
C9_DrainDeletesUntilFirstZero ==
    \A p \in Procs :
        LET d == DrainOf(p) IN
        /\ \A i \in 1..Len(d) :
              /\ (i % 2 = 1) => d[i].op = "count"
              /\ (i % 2 = 0) => (d[i].op = "delete" /\ d[i - 1].res.n > 0)
              /\ (d[i].op = "count" /\ d[i].res.n = 0) => i = Len(d)
        /\ (LeftDrain(p) /\ d # <<>>) =>
              /\ d[Len(d)].op = "count" /\ d[Len(d)].res.n = 0
              /\ Count(p, "delete") = Count(p, "count") - 1
        /\ pc[p] = "sz_remove" => (d # <<>> /\ d[Len(d)].op = "count" /\ d[Len(d)].res.n > 0)
\* The server reports 3, 2, 1, 0 and the resolve has issued 3 deletes.
C9_Witness ==
    \E p \in Procs :
        /\ LeftDrain(p)
        /\ Len(DrainOf(p)) = 7
        /\ \A j \in 0..3 : DrainOf(p)[2 * j + 1].res.n = 3 - j
        /\ Count(p, "delete") = 3

\* ------------------------------------------- BSH post-processing on its own

\* Longest run of ordinary characters before, and longest run of arbitrary
\* characters inside, a field value the post-processing is applied to.
MaxPad == 10
MaxMid == 2
SeqsUpTo(S, n) == UNION {[1..k -> S] : k \in 0..n}
\* The field value of the specification's example, "  12\n/31\r/2024  " with
\* the two escapes written as backslash and letter (digits and slashes are
\* the ordinary character), the same value holding the two control
\* characters instead, and N/A.
ExampleEscaped ==
    <<SP, SP, "1", "1", BS, "n", "1", "1", "1", BS, "r", "1", "1", "1", "1", "1", SP, SP>>
ExampleControl ==
    <<SP, SP, "1", "1", NL, "1", "1", "1", CR, "1", "1", "1", "1", "1", SP, SP>>
BshInputs ==
    {JNull, JStr(ExampleEscaped), JStr(ExampleControl)}
    \cup {JStr(Ones(a) \o m \o Ones(b)) :
            a \in 0..MaxPad, m \in SeqsUpTo(Chars, MaxMid), b \in 0..1}

InitBshPostProcess ==
    /\ pc = [p \in Procs |-> "idle"]
    /\ req = [p \in Procs |-> NoRequest]
    /\ tok = [p \in Procs |-> NoneVal]
    /\ trace = [p \in Procs |-> <<>>]
    /\ outcome = [p \in Procs |-> "running"]
    /\ result = [p \in Procs |-> <<>>]
    /\ csrf = [p \in Procs |-> NoneVal]
    /\ nitems = [p \in Procs |-> 0]
    /\ validated = [p \in Procs |-> <<>>]
    /\ pending = [p \in Procs |-> NoneVal]
    /\ cacheFile = [v \in SessionVendors |-> NoFile]
    /\ cart = <<>>
    /\ xlsx = Book("missing", "old")
    /\ workload = "bsh"
    /\ probe \in {[fn |-> "none", arg |-> v, out |-> <<>>] : v \in BshInputs}
\* bsh.rs:148-170 applied to the value found in the response.
ApplyBshPostProcess ==
    /\ probe.fn = "none"
    /\ probe' = [fn |-> "BshPostProcess", arg |-> probe.arg,
                 out |-> BshPostProcess(probe.arg)]
    /\ UNCHANGED <<pc, req, tok, trace, outcome, result, csrf, nitems, validated,
                   pending, cacheFile, cart, xlsx, workload>>
SpecBshPostProcess == InitBshPostProcess /\ [][ApplyBshPostProcess]_vars

\* clean as the claim states it: one pass that drops every newline and
\* carriage return, literal or written as backslash and letter, and every
\* space, and keeps every other character.
RECURSIVE ClaimedClean(_)
ClaimedClean(s) ==
    IF s = <<>> THEN <<>>
    ELSE IF Len(s) >= 2 /\ s[1] = BS /\ s[2] \in {"n", "r"}
         THEN ClaimedClean(SubSeq(s, 3, Len(s)))
    ELSE IF s[1] \in {NL, CR, SP} THEN ClaimedClean(Tail(s))
    ELSE <<s[1]>> \o ClaimedClean(Tail(s))

\* C10 (as claimed): the result for field value v is clean(v) when clean(v)
\* has at least 10 characters and the sentinel otherwise.
C10_ResultIsCleanValueOrSentinel ==
    (probe.fn = "BshPostProcess" /\ probe.arg.t = "str") =>
        probe.out = (IF Len(ClaimedClean(probe.arg.s)) >= MinAvailLen
                     THEN ClaimedClean(probe.arg.s) ELSE NotFoundSentinel)

\* ------------------------------------------------------------ cookie header

\* Every variable of a resolve at rest; the specifications of the pure
\* functions below keep them there and work on probe alone.
ProgramAtRest ==
    /\ pc = [p \in Procs |-> "idle"]
    /\ req = [p \in Procs |-> NoRequest]
    /\ tok = [p \in Procs |-> NoneVal]
    /\ trace = [p \in Procs |-> <<>>]
    /\ outcome = [p \in Procs |-> "running"]
    /\ result = [p \in Procs |-> <<>>]
    /\ csrf = [p \in Procs |-> NoneVal]
    /\ nitems = [p \in Procs |-> 0]
    /\ validated = [p \in Procs |-> <<>>]
    /\ pending = [p \in Procs |-> NoneVal]
    /\ cacheFile = [v \in SessionVendors |-> NoFile]
    /\ cart = <<>>
    /\ xlsx = Book("missing", "old")
ProgramUnchanged ==
    UNCHANGED <<pc, req, tok, trace, outcome, result, csrf, nitems, validated,
                pending, cacheFile, cart, xlsx, workload>>

MaxJar == 3
EQ == "="
SC == ";"
\* A cookie of the decoded session record: a name and a value, both strings.
CookieNames == {<<"n">>, <<"r">>}
CookieValues == {<<>>, <<"1">>, <<"1", SC, SP>>}
Cookies == [name : CookieNames, value : CookieValues]
CookieJars == SeqsUpTo(Cookies, MaxJar)

\* A header builder that keeps one cookie per name, the last one seen.
RECURSIVE PushCookiesByName(_, _)
PushCookiesByName(cookies, jar) ==
    IF jar = <<>> THEN cookies
    ELSE IF \E i \in 1..Len(Tail(jar)) : Tail(jar)[i].name = Head(jar).name
         THEN PushCookiesByName(cookies, Tail(jar))
    ELSE PushCookiesByName(
             cookies \o Head(jar).name \o <<EQ>> \o Head(jar).value \o <<SC, SP>>,
             Tail(jar))
\* bsh.rs:42-47, subzero.rs:42-47: the loop body pushes name, '=', value and
\* "; " onto the string built so far, for each cookie of the jar in turn.
RECURSIVE PushCookies(_, _)
PushCookies(cookies, jar) ==
    IF jar = <<>> THEN cookies
    ELSE PushCookies(
             cookies \o Head(jar).name \o <<EQ>> \o Head(jar).value \o <<SC, SP>>,
             Tail(jar))
\* bsh.rs:40-49, subzero.rs:40-49: the loop starts from String::new().
CookieHeader(jar) == PushCookies(<<>>, jar)

InitCookieHeader ==
    /\ ProgramAtRest
    /\ workload \in SessionVendors
    /\ probe \in {[fn |-> "none", arg |-> j, out |-> <<>>] : j \in CookieJars}
ApplyCookieHeader ==
    /\ probe.fn = "none"
    /\ probe' = [fn |-> "CookieHeader", arg |-> probe.arg,
                 out |-> CookieHeader(probe.arg)]
    /\ ProgramUnchanged
SpecCookieHeader == InitCookieHeader /\ [][ApplyCookieHeader]_vars

\* The segment of one cookie, and the place in the header where the segment
\* of the i-th cookie starts.
Segment(c) == c.name \o <<EQ>> \o c.value \o <<SC, SP>>
RECURSIVE SegmentOffset(_, _)
SegmentOffset(jar, i) ==
    IF i = 1 THEN 0
    ELSE SegmentOffset(jar, i - 1) + Len(Segment(jar[i - 1]))

\* C11: for every jar, the header is made of one `name=value; ` segment per
\* cookie, the i-th segment being the i-th cookie of the jar, and of nothing
\* else: no cookie is dropped, repeated or moved.
C11_HeaderIsOneSegmentPerCookieInOrder ==
    probe.fn = "CookieHeader" =>
        /\ Len(probe.out) = SegmentOffset(probe.arg, Len(probe.arg) + 1)
        /\ \A i \in 1..Len(probe.arg) :
              SubSeq(probe.out, SegmentOffset(probe.arg, i) + 1,
                     SegmentOffset(probe.arg, i + 1)) = Segment(probe.arg[i])
\* A jar of three cookies, two of them with the same name, went through.
C11_Witness ==
    /\ probe.fn = "CookieHeader"
    /\ Len(probe.arg) = MaxJar
    /\ probe.arg[1].name = probe.arg[3].name
    /\ probe.arg[1].value # probe.arg[3].value
    /\ probe.out = Segment(probe.arg[1]) \o Segment(probe.arg[2]) \o Segment(probe.arg[3])

\* ------------------------------------------------------- Miele row matching

MaxRows == 2
PCT == "%"
\* str::to_lowercase on the letters that occur; every other character is
\* its own lowercase.
UpperLetters ==
    {"H", "B", "L", "P", "R", "U", "C", "X", "Y", "Z", "S", "E", "O", "M", "I"}
LowerOf(c) ==
    CASE c = "H" -> "h" [] c = "B" -> "b" [] c = "L" -> "l" [] c = "P" -> "p"
      [] c = "R" -> "r" [] c = "U" -> "u" [] c = "C" -> "c" [] c = "X" -> "x"
      [] c = "Y" -> "y" [] c = "Z" -> "z" [] c = "S" -> "s" [] c = "E" -> "e"
      [] c = "O" -> "o" [] c = "M" -> "m" [] c = "I" -> "i" [] OTHER -> c
ToLowercase(s) == [i \in 1..Len(s) |-> LowerOf(s[i])]
\* char::is_whitespace
IsWhitespace(c) == c \in {SP, NL, CR}
\* str::trim: leading and trailing whitespace removed.
RECURSIVE TrimStart(_)
TrimStart(s) ==
    IF s # <<>> /\ IsWhitespace(Head(s)) THEN TrimStart(Tail(s)) ELSE s
RECURSIVE TrimEnd(_)
TrimEnd(s) ==
    IF s # <<>> /\ IsWhitespace(s[Len(s)])
    THEN TrimEnd(SubSeq(s, 1, Len(s) - 1)) ELSE s
Trim(s) == TrimEnd(TrimStart(s))
\* .chars().filter(|c| !c.is_whitespace()).collect()
FilterWhitespace(s) == SelectSeq(s, LAMBDA c : ~IsWhitespace(c))
\* miele.rs:172-173: the row side of the comparison.
NormalizeRow(s) == FilterWhitespace(Trim(ToLowercase(s)))

\* urlencoding::decode: %20 becomes a space; a percent sign not followed by
\* two hex digits is kept as it is; bytes that are not UTF-8 after decoding
\* (%FF) are an error.
DecodeError == [ok |-> FALSE, s |-> <<>>]
RECURSIVE Decode(_)
Decode(s) ==
    IF s = <<>> THEN [ok |-> TRUE, s |-> <<>>]
    ELSE IF Len(s) >= 3 /\ s[1] = PCT /\ s[2] = "F" /\ s[3] = "F"
         THEN DecodeError
    ELSE LET three == Len(s) >= 3 /\ s[1] = PCT /\ s[2] = "2" /\ s[3] = "0"
             rest  == Decode(IF three THEN SubSeq(s, 4, Len(s)) ELSE Tail(s))
         IN IF ~rest.ok THEN DecodeError
            ELSE [ok |-> TRUE, s |-> <<IF three THEN SP ELSE s[1]>> \o rest.s]
\* A query side that skips the URL decoding.
NormalizeQueryUndecoded(s) == FilterWhitespace(Trim(ToLowercase(s)))
\* miele.rs:174: the query side, after a successful decode.
NormalizeQuery(s) == FilterWhitespace(Trim(ToLowercase(Decode(s).s)))

\* SkimMatcherV2::fuzzy_match(choice, pattern) of the fuzzy-matcher crate, as
\* far as the adapter depends on it: an empty pattern matches everything with
\* score 0, a pattern that is not an ordered subsequence of the choice does
\* not match, and a match is rewarded per matched character (score_match)
\* and per pair of matched characters that are adjacent in the choice
\* (bonus_consecutive), taken on the leftmost alignment.
ScoreMatch == 16
BonusConsecutive == 4
NoMatch == [some |-> FALSE, score |-> 0]
Some(n) == [some |-> TRUE, score |-> n]
\* Reward of the leftmost alignment of pattern in choice; -1 when there is
\* none.  adj says that the previous character of choice was matched.
RECURSIVE Align(_, _, _)
Align(choice, pattern, adj) ==
    IF pattern = <<>> THEN 0
    ELSE IF choice = <<>> THEN -1
    ELSE IF Head(choice) = Head(pattern)
         THEN LET r == Align(Tail(choice), Tail(pattern), TRUE)
              IN IF r < 0 THEN -1
                 ELSE ScoreMatch + (IF adj THEN BonusConsecutive ELSE 0) + r
    ELSE Align(Tail(choice), pattern, FALSE)
FuzzyMatch(choice, pattern) ==
    IF pattern = <<>> THEN Some(0)
    ELSE IF Align(choice, pattern, FALSE) < 0 THEN NoMatch
    ELSE Some(Align(choice, pattern, FALSE))
\* A scoring that charges a failed match instead of counting it 0.
ScoreOrMinusOne(r) == IF r.some THEN r.score ELSE -1
\* miele.rs:177-180, 184-187: a failed match counts 0.
ScoreOrZero(r) == IF r.some THEN r.score ELSE 0
\* miele.rs:172-189: the score of one row for a decoded query.
Score(row, query) ==
    ScoreOrZero(FuzzyMatch(NormalizeRow(row.model_number), NormalizeQuery(query)))
    + ScoreOrZero(FuzzyMatch(NormalizeRow(row.description), NormalizeQuery(query)))

\* A catalog row as far as the matching reads it (miele.rs:94-147).
HBLP == <<"H", "B", "L", "P", "6", "5", "1", "R", "U", "C">>
HBLPSpaced == <<SP, "h", "b", "l", "p", SP, "6", "5", "1", "r", "u", "c">>
HBLPDashed == <<"H", "B", "L", "P", "-", "6", "5", "1", "R", "U", "C">>
XYZ == <<"X", "Y", "Z">>
RowModelNumbers == {HBLP, HBLPSpaced, XYZ, <<>>}
RowDescriptions == {<<>>, HBLPDashed}
RowDates == {<<>>, <<"d1">>, <<"d2">>}
CatalogRows ==
    [model_number : RowModelNumbers, description : RowDescriptions,
     next_available_date : RowDates]
\* req.model_number as sent: the example with %20, a blank, the empty string,
\* a model not in the catalog and a string that does not decode.
Queries ==
    {<<"H", "B", "L", "P", PCT, "2", "0", "6", "5", "1", "R", "U", "C">>,
     <<PCT, "2", "0">>, <<>>, <<"Y", "Z">>, <<PCT, "F", "F">>}

\* miele.rs:151-167: the record the loop starts from.
NoBest == [idx |-> 0, score |-> 0, model_number |-> <<>>, next_available_date |-> <<>>]
\* A loop that also replaces the best on an equal score.
ReplacesOnTie(score, best) == score >= best.score
\* miele.rs:191: if score > best_match.score
Replaces(score, best) == score > best.score
\* miele.rs:169-194: the loop over the rows in worksheet order.
RECURSIVE BestFrom(_, _, _, _)
BestFrom(rows, query, i, best) ==
    IF i > Len(rows) THEN best
    ELSE BestFrom(rows, query, i + 1,
             IF Replaces(Score(rows[i], query), best)
             THEN [idx |-> i, score |-> Score(rows[i], query),
                   model_number |-> rows[i].model_number,
                   next_available_date |-> rows[i].next_available_date]
             ELSE best)
BestMatch(rows, query) == BestFrom(rows, query, 1, NoBest)
\* A result that reports every selected record as found.
MieleResultAlwaysFound(best) ==
    <<"Found: ", best.model_number, ", Available: ", best.next_available_date>>
\* miele.rs:196-203
MieleResult(best) ==
    IF best.next_available_date = <<>>
    THEN <<"Next avalability for ", best.model_number, " is unknown.">>
    ELSE <<"Found: ", best.model_number, ", Available: ", best.next_available_date>>
\* miele.rs:169-203 for the rows of the worksheet and the model number of the
\* request; the decode at miele.rs:174 runs once per row and panics on an
\* error, so it is never reached when there is no row.
MieleMatch(rows, query) ==
    IF rows # <<>> /\ ~Decode(query).ok
    THEN [kind |-> "panic", best |-> NoBest, scores |-> <<>>,
          result |-> <<"Cannot decode model number.">>]
    ELSE [kind |-> "ok", best |-> BestMatch(rows, query),
          scores |-> [i \in 1..Len(rows) |-> Score(rows[i], query)],
          result |-> MieleResult(BestMatch(rows, query))]

InitMieleMatch ==
    /\ ProgramAtRest
    /\ workload = "miele"
    /\ probe \in {[fn |-> "none", arg |-> [rows |-> r, query |-> q], out |-> <<>>] :
                    r \in SeqsUpTo(CatalogRows, MaxRows), q \in Queries}
ApplyMieleMatch ==
    /\ probe.fn = "none"
    /\ probe' = [fn |-> "MieleMatch", arg |-> probe.arg,
                 out |-> MieleMatch(probe.arg.rows, probe.arg.query)]
    /\ ProgramUnchanged
SpecMieleMatch == InitMieleMatch /\ [][ApplyMieleMatch]_vars

Matched == probe.fn = "MieleMatch" /\ probe.out.kind = "ok"
MaxScore == 
    LET s == probe.out.scores
    IN CHOOSE m \in {s[i] : i \in 1..Len(s)} : \A i \in 1..Len(s) : s[i] <= m
FirstWithMax ==
    LET s == probe.out.scores
    IN CHOOSE i \in 1..Len(s) : s[i] = MaxScore /\ \A j \in 1..(i - 1) : s[j] < MaxScore

\* C12 (as claimed): the selected record is the first row, in worksheet
\* order, that attains the maximum score of the rows.
C12_SelectedIsFirstRowWithMaxScore ==
    (Matched /\ probe.arg.rows # <<>>) => probe.out.best.idx = FirstWithMax
\* C12 (amended): when some row scores more than 0, the selected record is
\* the first row that attains the maximum score, so of two rows with the
\* same maximal score the earlier one is selected; when no row scores more
\* than 0, no row is selected and the result is built from the empty record
\* the loop starts from.
C12_FirstRowWithPositiveMaxScore ==
    (Matched /\ probe.arg.rows # <<>>) =>
        IF MaxScore > 0
        THEN /\ probe.out.best.idx = FirstWithMax
             /\ probe.out.best.model_number = probe.arg.rows[FirstWithMax].model_number
             /\ probe.out.best.next_available_date
                    = probe.arg.rows[FirstWithMax].next_available_date
        ELSE /\ probe.out.best = NoBest
             /\ probe.out.result = <<"Next avalability for ", <<>>, " is unknown.">>
\* Two rows with the same positive maximal score and different dates: the
\* first one's date is reported.
C12_Witness ==
    /\ Matched
    /\ Len(probe.arg.rows) = 2
    /\ probe.out.scores[1] = probe.out.scores[2]
    /\ probe.out.scores[1] > 0
    /\ probe.arg.rows[1].next_available_date = <<"d1">>
    /\ probe.arg.rows[2].next_available_date = <<"d2">>
    /\ probe.out.result = <<"Found: ", probe.arg.rows[1].model_number, ", Available: ", <<"d1">> >>

NQuery == NormalizeQuery(probe.arg.query)
SharesNoCharacter(s, t) == \A i \in 1..Len(s) : \A j \in 1..Len(t) : s[i] # t[j]
ExactRow(i) == NormalizeRow(probe.arg.rows[i].model_number) = NQuery
UnrelatedRow(j) ==
    /\ SharesNoCharacter(NormalizeRow(probe.arg.rows[j].model_number), NQuery)
    /\ SharesNoCharacter(NormalizeRow(probe.arg.rows[j].description), NQuery)
RowIndexes == 1..Len(probe.arg.rows)

\* C13 (as claimed): every score is at least 0, and a row whose normalized
\* model number equals the normalized query scores strictly higher than a
\* row whose model number and description share no character with it.
C13_ExactRowOutscoresUnrelatedRow ==
    Matched =>
        /\ \A i \in RowIndexes : probe.out.scores[i] >= 0
        /\ \A i, j \in RowIndexes :
              (i # j /\ ExactRow(i) /\ UnrelatedRow(j))
                  => probe.out.scores[i] > probe.out.scores[j]
\* C13 (amended): the score of a row is the sum of its two match scores, a
\* failed match counting 0, so it is at least 0 and it is exactly 0 for a
\* row that shares no character with a non-empty normalized query; when the
\* normalized query is not empty, a row whose normalized model number equals
\* it scores strictly higher than such a row; when the normalized query is
\* empty, every row scores 0.
C13_ExactRowOutscoresUnrelatedRowForNonEmptyQuery ==
    Matched =>
        /\ \A i \in RowIndexes : probe.out.scores[i] >= 0
        /\ NQuery # <<>> =>
              /\ \A j \in RowIndexes : UnrelatedRow(j) => probe.out.scores[j] = 0
              /\ \A i, j \in RowIndexes :
                    (ExactRow(i) /\ UnrelatedRow(j))
                        => probe.out.scores[i] > probe.out.scores[j]
        /\ NQuery = <<>> => \A i \in RowIndexes : probe.out.scores[i] = 0
\* An exact row and an unrelated row were scored for a non-empty query.
C13_Witness ==
    /\ Matched
    /\ NQuery # <<>>
    /\ Len(probe.arg.rows) = 2
    /\ ExactRow(2) /\ UnrelatedRow(1)
    /\ probe.out.scores[1] = 0
    /\ probe.out.scores[2] > 0

ExampleQuery == <<"H", "B", "L", "P", PCT, "2", "0", "6", "5", "1", "R", "U", "C">>
ExampleCase ==
    /\ probe.fn = "MieleMatch"
    /\ probe.arg.query = ExampleQuery
    /\ Len(probe.arg.rows) = 2
    /\ probe.arg.rows[1].model_number = HBLP
    /\ probe.arg.rows[1].next_available_date # <<>>
    /\ probe.arg.rows[2].model_number = XYZ
    /\ probe.arg.rows[2].description = <<>>
\* C14: the query "HBLP%20651RUC" and the row model number "HBLP651RUC"
\* normalize to the same string, and matching that query against a
\* worksheet with that row first, carrying a date, and an unrelated row
\* second returns "Found: HBLP651RUC, Available: " and the date of row 1.
C14_ExampleQueryFindsRowOne ==
    ExampleCase =>
        /\ NormalizeQuery(ExampleQuery) = NormalizeRow(HBLP)
        /\ probe.out.kind = "ok"
        /\ probe.out.result
              = <<"Found: ", HBLP, ", Available: ", probe.arg.rows[1].next_available_date>>
C14_Witness ==
    /\ ExampleCase
    /\ probe.arg.rows[1].next_available_date = <<"d1">>
    /\ probe.arg.rows[2].next_available_date = <<"d2">>
    /\ probe.out.result = <<"Found: ", HBLP, ", Available: ", <<"d1">> >>

\* ------------------------------------------------- session cache and login

\* The last thing resolve p did was a cache read that found the file empty.
JustReadEmptyFile(p) ==
    /\ trace[p] # <<>>
    /\ trace[p][Len(trace[p])].op = "read"
    /\ trace[p][Len(trace[p])].res.file = "empty"
\* Resolve q is inside login between File::create and write_all.
WritingCache(q) == pc[q] = "write"

\* C15 (as claimed): a cache read that runs while a login of another resolve
\* is writing the cache file observes the complete previous record or the
\* complete new one, never an empty file.
C15_ConcurrentReadNeverSeesEmptyFile ==
    \A p, q \in Procs :
        (p # q /\ WritingCache(q) /\ VendorOf(p) = VendorOf(q)) => ~JustReadEmptyFile(p)

\* The portal answered the service-root GET of resolve p without an
\* anti-forgery token: it did not accept the cookies of the session record.
CookiesRejected(p) ==
    \E i \in 1..Len(trace[p]) :
        trace[p][i].op = "get" /\ trace[p][i].res \in {"noHeader", "badHeader"}
LoggedInAfterRejection(p) ==
    \E i, j \in 1..Len(trace[p]) :
        /\ i < j
        /\ trace[p][i].op = "get" /\ trace[p][i].res \in {"noHeader", "badHeader"}
        /\ trace[p][j].op = "login"

\* C16 (as claimed): once the portal has rejected the cookies of the session
\* record, the record is invalid: the resolve has logged in again, or the
\* cache reads as Absent for the next resolve.
C16_RejectedRecordIsInvalidated ==
    \A p \in Procs :
        (Finished(p) /\ VendorOf(p) = "bsh" /\ CookiesRejected(p)) =>
            \/ LoggedInAfterRejection(p)
            \/ ~GetToken(cacheFile["bsh"]).ok

LoginEndedIn(p, outcomes) ==
    \E i \in 1..Len(trace[p]) : trace[p][i].op = "login" /\ trace[p][i].res \in outcomes
\* C17 (as claimed): a login whose step cannot be launched or sent, or that
\* produces no cookies, ends the resolve with an error result, and the
\* no-cookies case writes no session record.
C17_LoginFailureIsAnErrorResult ==
    \A p \in Procs :
        (Finished(p) /\ LoginEndedIn(p, {"step", "nocookies"})) =>
            /\ outcome[p] = "err"
            /\ LoginEndedIn(p, {"nocookies"}) => Count(p, "write") = 0

SessionObtained(p) ==
    \E i \in 1..Len(trace[p]) : trace[p][i].op = "read" /\ trace[p][i].res.got = "ok"
\* C19: in a finished BSH resolve whose credentials were fetched, the
\* adapter returned Ok with a non-empty string or Err, never a panic; it
\* returned Err exactly when login failed; and once a session was read from
\* the cache, every failure of the header construction, the GET, the POST,
\* the body or its JSON ended in Ok with a string.
C19_BshFailuresAreStrings ==
    \A p \in Procs :
        (Finished(p) /\ VendorOf(p) = "bsh" /\ ~SecretsFailed(p)) =>
            /\ outcome[p] \in {"ok", "err"}
            /\ outcome[p] = "err" <=> LoginFailed(p)
            /\ SessionObtained(p) => (outcome[p] = "ok" /\ result[p] # <<>>)
\* The simulate POST of a resolve with a session failed in transport and the
\* resolve returned the description of the failure.
C19_Witness ==
    \E p \in Procs :
        /\ Finished(p) /\ VendorOf(p) = "bsh" /\ SessionObtained(p)
        /\ \E i \in 1..Len(trace[p]) : trace[p][i].op = "post" /\ trace[p][i].res = "sendErr"
        /\ outcome[p] = "ok"
        /\ result[p] = Msg("Failed to get availability response")

\* C20 (as claimed): a simulate POST is issued only when the response of the
\* service-root GET carried an x-csrf-token header, and it carries that
\* token; without the header no POST is issued.
C20_PostOnlyWithTokenFromGet ==
    \A p \in Procs :
        Count(p, "post") > 0 =>
            /\ \E i \in 1..Len(trace[p]) : trace[p][i].op = "get" /\ trace[p][i].res = "token"
            /\ csrf[p] = "csrf-token"

\* ------------------------------------------------ dispatch by manufacturer

BshName == <<"b", "s", "h">>
SubzeroName == <<"s", "u", "b", "z", "e", "r", "o">>
MieleName == <<"m", "i", "e", "l", "e">>
\* The uppercase of a lowercase letter, to write a name in every casing.
UpperOf(c) == CHOOSE u \in UpperLetters : LowerOf(u) = c
Casings(w) ==
    {[i \in 1..Len(w) |-> IF m[i] THEN UpperOf(w[i]) ELSE w[i]] :
        m \in [1..Len(w) -> BOOLEAN]}
\* req.manufacturer: None, or a string: the three names in their casings,
\* and strings that are none of them (a prefix, a name with a blank around
\* it, another vendor, the empty string).
NoManufacturer == [some |-> FALSE, s |-> <<>>]
Manufacturer(s) == [some |-> TRUE, s |-> s]
ManufacturerStrings ==
    Casings(BshName) \cup Casings(MieleName)
    \cup {SubzeroName, <<"S", "U", "B", "Z", "E", "R", "O">>,
          <<"S", "u", "b", "Z", "e", "r", "o">>}
    \cup {<<>>, <<"b", "s">>, <<"B", "S", "H", SP>>, <<SP, "m", "i", "e", "l", "e">>,
          <<"b", "o", "s", "c", "h">>, <<"s", "u", "b", "-", "z", "e", "r", "o">>}
ManufacturerInputs == {NoManufacturer} \cup {Manufacturer(s) : s \in ManufacturerStrings}

\* A match on the manufacturer as it was written, without lowercasing.
MatchArmExact(m) ==
    IF ~m.some THEN "none"
    ELSE CASE m.s = BshName     -> "bsh"
           [] m.s = SubzeroName -> "subzero"
           [] m.s = MieleName   -> "miele"
           [] OTHER             -> "none"
\* lib.rs:121-143 and lib.rs:334-360: if let Some(manufacturer), then the
\* match on manufacturer.to_lowercase().as_str().
MatchArm(m) ==
    IF ~m.some THEN "none"
    ELSE CASE ToLowercase(m.s) = BshName     -> "bsh"
           [] ToLowercase(m.s) = SubzeroName -> "subzero"
           [] ToLowercase(m.s) = MieleName   -> "miele"
           [] OTHER                          -> "none"
\* lib.rs:120-144 parse_manufacturer: the manufacturer field afterwards.
ParseManufacturer(m) ==
    CASE MatchArm(m) = "bsh"     -> Manufacturer(BshName)
      [] MatchArm(m) = "subzero" -> Manufacturer(SubzeroName)
      [] MatchArm(m) = "miele"   -> Manufacturer(MieleName)
      [] OTHER                   -> NoManufacturer
\* lib.rs:333-365 get_availability up to the call of the adapter: which
\* secret source is asked, which adapter is called, and what is returned
\* when none is.  secretsOk: the key vault hands out the credentials.
GetAvailabilityDispatch(m, secretsOk) ==
    CASE MatchArm(m) \in SessionVendors ->
            [secrets |-> MatchArm(m),
             adapter |-> IF secretsOk THEN MatchArm(m) ELSE "none",
             returns |-> IF secretsOk THEN "adapter" ELSE "err"]
      [] MatchArm(m) = "miele" ->
            [secrets |-> "none", adapter |-> "miele", returns |-> "adapter"]
      [] OTHER ->
            [secrets |-> "none", adapter |-> "none", returns |-> "unset"]

InitDispatch ==
    /\ ProgramAtRest
    /\ workload = "bsh"
    /\ probe \in {[fn |-> "none", arg |-> [manufacturer |-> m, secretsOk |-> s],
                   out |-> <<>>] : m \in ManufacturerInputs, s \in BOOLEAN}
ApplyDispatch ==
    /\ probe.fn = "none"
    /\ probe' = [fn |-> "Dispatch", arg |-> probe.arg,
                 out |-> [parsed |-> ParseManufacturer(probe.arg.manufacturer),
                          call |-> GetAvailabilityDispatch(probe.arg.manufacturer,
                                                           probe.arg.secretsOk)]]
    /\ ProgramUnchanged
SpecDispatch == InitDispatch /\ [][ApplyDispatch]_vars

\* The vendor a manufacturer string names when its letters are compared
\* without regard to case, letter by letter.
SameLetters(m, w) ==
    /\ m.some
    /\ Len(m.s) = Len(w)
    /\ \A i \in 1..Len(w) : m.s[i] = w[i] \/ m.s[i] = UpperOf(w[i])
NamedVendor(m) ==
    CASE SameLetters(m, BshName)     -> BshName
      [] SameLetters(m, SubzeroName) -> SubzeroName
      [] SameLetters(m, MieleName)   -> MieleName
      [] OTHER                       -> <<>>

\* C18: parse_manufacturer sets the manufacturer to the one of bsh, subzero,
\* miele that the given string names in any casing, and to unset for any
\* other or missing value; get_availability calls no adapter other than the
\* one of that vendor (the adapter of a session vendor is called once its
\* credentials were fetched), and for an unset or unknown manufacturer it
\* asks no secret source, calls no adapter and returns availability unset.
C18_DispatchByManufacturer ==
    probe.fn = "Dispatch" =>
        LET n == NamedVendor(probe.arg.manufacturer)
            v == CASE n = BshName -> "bsh" [] n = SubzeroName -> "subzero"
                   [] n = MieleName -> "miele" [] OTHER -> "none"
        IN
        /\ probe.out.parsed = (IF v = "none" THEN NoManufacturer ELSE Manufacturer(n))
        /\ probe.out.call.adapter \in {v, "none"}
        /\ (v # "none" /\ (v = "miele" \/ probe.arg.secretsOk))
              => (probe.out.call.adapter = v /\ probe.out.call.returns = "adapter")
        /\ v = "none" =>
              probe.out.call = [secrets |-> "none", adapter |-> "none", returns |-> "unset"]
        /\ probe.out.call.secrets \in {v, "none"}
\* "BSH" in capitals was dispatched to the BSH adapter.
C18_Witness ==
    /\ probe.fn = "Dispatch"
    /\ probe.arg.manufacturer = Manufacturer(<<"B", "S", "H">>)
    /\ probe.arg.secretsOk
    /\ probe.out.parsed = Manufacturer(BshName)
    /\ probe.out.call.adapter = "bsh"

\* ------------------------------------------------------ BSH request order

BshRequests(p) == EventsOf(p, {"get", "post"})
\* The session the resolve holds: the one its last cache read returned.
SessionRead(p) == tok[p]
\* C21: in one resolve the BSH adapter sends at most one service-root GET
\* and at most one simulate POST, the POST only after the GET was answered,
\* so the requests sent are a prefix of <GET, POST> and no step is taken
\* twice; both carry the cookie header of the session read from the cache.
C21_BshIsLinearWithoutRetries ==
    \A p \in Procs :
        /\ Count(p, "get") <= 1
        /\ Count(p, "post") <= 1
        /\ Len(BshRequests(p)) >= 1 =>
              (BshRequests(p)[1].op = "get" /\ VendorOf(p) = "bsh")
        /\ Len(BshRequests(p)) = 2 =>
              /\ BshRequests(p)[1].res # "sendErr"
              /\ BshRequests(p)[2].op = "post"
        /\ \A i \in 1..Len(BshRequests(p)) :
              BshRequests(p)[i].hdr = SessionRead(p) /\ HeaderOk(SessionRead(p))
        /\ (Finished(p) /\ Count(p, "post") = 1) => Count(p, "get") = 1
\* A resolve went through GET and POST and returned the parsed field.
C21_Witness ==
    \E p \in Procs :
        /\ Finished(p)
        /\ Len(BshRequests(p)) = 2
        /\ BshRequests(p)[1].res = "token"
        /\ BshRequests(p)[2].res = "json"
        /\ BshRequests(p)[1].hdr = "jar" /\ BshRequests(p)[2].hdr = "jar"
        /\ outcome[p] = "ok"

\* ------------------------------------------------------ SubZero cart steps

\* One call of get_availability whose steps are eventually taken: the
\* runtime keeps polling the future, and every request is answered or fails.
SpecFair == Spec /\ \A p \in Procs : WF_vars(Step(p))

InDrain(p) == pc[p] \in {"sz_count", "sz_remove"}
DeletesOf(p) == EventsOf(p, {"delete"})
\* How the server treated the deletes of p so far, with every count read
\* answered: each one removed a row, or none had an effect while the cart
\* held a row.
ServerRemoves(p) ==
    /\ AllCountsRead(p)
    /\ \A i \in 1..Len(DeletesOf(p)) : DeletesOf(p)[i].res = "deleted"
ServerIgnoresDeletes(p) ==
    /\ AllCountsRead(p)
    /\ DrainOf(p) # <<>> /\ DrainOf(p)[1].res.n > 0
    /\ \A i \in 1..Len(DeletesOf(p)) : DeletesOf(p)[i].res = "noEffect"
DrainExitsOnlyOnZero ==
    \A p \in Procs :
        (LeftDrain(p) /\ DrainOf(p) # <<>>) => DrainOf(p)[Len(DrainOf(p))].res.n = 0
DrainBoundedByCart ==
    \A p \in Procs :
        (ServerRemoves(p) /\ DrainOf(p) # <<>>) =>
            /\ Count(p, "delete") <= DrainOf(p)[1].res.n
            /\ LeftDrain(p) => Count(p, "delete") = DrainOf(p)[1].res.n
StuckDrainNeverValidates ==
    \A p \in Procs : ServerIgnoresDeletes(p) => (~LeftDrain(p) /\ ~Finished(p))

CartRequests(p) == EventsOf(p, {"count", "delete", "validate", "add"})
\* The place of a request in Idle -> Drained -> Validated -> Added.
StepRank(e) ==
    CASE e.op \in {"count", "delete"} -> 1
      [] e.op = "validate"            -> 2
      [] OTHER                        -> 3
HasModelNumber(p) == VendorOf(p) = "subzero" /\ req[p].model_number # NoneVal
\* What validate can hand back for the model number of p: the text before
\* the first brace of a body, or the message of its failure.
ValidateResults(p) ==
    {BeforeBrace(b) : b \in SuggestBodies(req[p].model_number)}
    \cup {Msg("Failed to get suggested items"), Msg("Faild to add cookies to header")}

\* C23: the cart requests of a resolve with a model number come in the order
\* drain (count reads and deletes), validate, Add: no delete or count read
\* follows the validate, there is exactly one validate GET once the loop is
\* left (none when no cookie header can be built), at most one Add POST, sent
\* only after validate returned, and the item of the Add is the string
\* validate returned.
C23_SubZeroStepOrder ==
    \A p \in Procs :
        HasModelNumber(p) =>
            LET c == CartRequests(p) IN
            /\ \A i, j \in 1..Len(c) : i < j => StepRank(c[i]) <= StepRank(c[j])
            /\ Count(p, "validate") <= 1
            /\ Count(p, "add") <= 1
            /\ (pc[p] = "sz_add" \/ (Finished(p) /\ LeftDrain(p))) =>
                  Count(p, "validate") = (IF HeaderOk(tok[p]) THEN 1 ELSE 0)
            /\ \A i \in 1..Len(c) :
                  c[i].op = "add" =>
                      /\ i > 1 /\ c[i - 1].op = "validate"
                      /\ c[i].res.item = validated[p]
                      /\ c[i].res.item \in ValidateResults(p)
\* Validate failed, and the Add carried its message, not the model number.
C23_Witness ==
    \E p \in Procs :
        /\ HasModelNumber(p) /\ Finished(p)
        /\ Count(p, "delete") = 1 /\ Count(p, "validate") = 1 /\ Count(p, "add") = 1
        /\ AddsOf(p)[1].res.item = Msg("Failed to get suggested items")
        /\ AddsOf(p)[1].res.item # <<req[p].model_number>>

\* A step of the cart workflow of p failed: a count read was not answered
\* with the cart table, a delete was not carried out, or validate failed.
FailedCount(e) == e.op = "count" /\ ~e.res.read
FailedDelete(e) == e.op = "delete" /\ e.res # "deleted"
FailedValidate(e) == e.op = "validate" /\ e.res = "err"
\* C24 (as claimed): after a failed count read, delete or validate the
\* resolve sends no further cart request: in particular no Add follows a
\* failed validate, and no validate or Add follows a failed count read or
\* delete; the resolve ends with a descriptive string.
C24_FailedStepShortCircuits ==
    \A p \in Procs :
        LET c == CartRequests(p) IN
        /\ \A i \in 1..Len(c) :
              (FailedCount(c[i]) \/ FailedDelete(c[i]) \/ FailedValidate(c[i])) => i = Len(c)
        /\ (Finished(p) /\ VendorOf(p) = "subzero" /\ ~SecretsFailed(p) /\ ~LoginFailed(p))
              => outcome[p] = "ok"

\* subzero.rs:349 applied to a response body on its own.
MaxBody == 4
BodyChars == {"m", "{", "j"}
InitValidateExtraction ==
    /\ ProgramAtRest
    /\ workload = "subzero"
    /\ probe \in {[fn |-> "none", arg |-> b, out |-> <<>>] : b \in SeqsUpTo(BodyChars, MaxBody)}
ApplyValidateExtraction ==
    /\ probe.fn = "none"
    /\ probe' = [fn |-> "BeforeBrace", arg |-> probe.arg, out |-> BeforeBrace(probe.arg)]
    /\ ProgramUnchanged
SpecValidateExtraction == InitValidateExtraction /\ [][ApplyValidateExtraction]_vars

\* C25: for every body b the validated model number is the prefix of b that
\* ends before its first `{`: it holds no brace, it is all of b when b holds
\* none, it is followed in b by a brace otherwise, and it is empty when b
\* starts with a brace; there is a value for every body.
C25_ValidatedIsPrefixBeforeFirstBrace ==
    probe.fn = "BeforeBrace" =>
        LET b == probe.arg
            v == probe.out
        IN /\ Len(v) <= Len(b)
           /\ v = SubSeq(b, 1, Len(v))
           /\ \A i \in 1..Len(v) : v[i] # "{"
           /\ (\A i \in 1..Len(b) : b[i] # "{") => v = b
           /\ Len(v) < Len(b) => b[Len(v) + 1] = "{"
           /\ (b # <<>> /\ b[1] = "{") => v = <<>>
\* A body with two braces was cut at the first.
C25_Witness ==
    /\ probe.fn = "BeforeBrace"
    /\ probe.arg = <<"m", "{", "j", "{">>
    /\ probe.out = <<"m">>

\* C26 (as claimed): the result of an Add whose response shows the cart
\* table is the cell at index 7 of the row of the added item, and "Error
\* finding item." when the table shows no such row; it is never the cell of
\* another row.
RowsOfItem(rows, item, p) ==
    SelectSeq(rows, LAMBDA r : r.item = item /\ r.by = p)
C26_ResultIsCellOfAddedItem ==
    \A p \in Procs :
        (Finished(p) /\ Len(AddsOf(p)) = 1 /\ AddsOf(p)[1].res.o = "table") =>
            LET a == AddsOf(p)[1].res
                mine == RowsOfItem(a.rows, a.item, p)
            IN result[p] = (IF mine = <<>> THEN ErrorFindingItem ELSE Cell7(mine[1]))

\* ------------------------------------------------------ Miele result, files

SelectedRow == probe.arg.rows[probe.out.best.idx]
\* C27: the result names the selected record: the unknown-availability
\* message with its model number when its next-available date is empty, and
\* otherwise "Found: <model_number>, Available: <next_available_date>", model
\* number and date being those of the one selected row, as the worksheet
\* holds them.
C27_ResultNamesTheSelectedRecord ==
    (Matched /\ probe.out.best.idx > 0) =>
        /\ probe.out.best.idx \in RowIndexes
        /\ probe.out.result =
              (IF SelectedRow.next_available_date = <<>>
               THEN <<"Next avalability for ", SelectedRow.model_number, " is unknown.">>
               ELSE <<"Found: ", SelectedRow.model_number, ", Available: ",
                      SelectedRow.next_available_date>>)
\* The second row was selected; it has no date while the first row has one.
C27_Witness ==
    /\ Matched
    /\ Len(probe.arg.rows) = 2
    /\ probe.out.best.idx = 2
    /\ probe.arg.rows[1].next_available_date = <<"d1">>
    /\ probe.arg.rows[2].next_available_date = <<>>
    /\ probe.out.result = <<"Next avalability for ", HBLPSpaced, " is unknown.">>

\* C28: when the worksheet has no data row, or no row scores more than 0, no
\* row is selected: the result is the unknown-availability message with an
\* empty model number, never a "Found: ..." string, even for a single row
\* that carries a date.
C28_NoPositiveScoreSelectsNoRow ==
    (Matched /\ \A i \in RowIndexes : probe.out.scores[i] <= 0) =>
        /\ probe.out.best.idx = 0
        /\ probe.out.result = <<"Next avalability for ", <<>>, " is unknown.">>
        /\ probe.out.result[1] # "Found: "
\* The only row has a date and scores 0: it is not reported.
C28_Witness ==
    /\ Matched
    /\ Len(probe.arg.rows) = 1
    /\ probe.arg.rows[1].next_available_date = <<"d1">>
    /\ probe.arg.rows[1].model_number = XYZ
    /\ probe.out.scores[1] = 0
    /\ probe.out.result = <<"Next avalability for ", <<>>, " is unknown.">>

\* C29 (as claimed): a Miele resolve that has written the workbook and is
\* about to open it finds the file it wrote itself, not one that another
\* resolve has truncated or written.
C29_OpensItsOwnWorkbook ==
    \A p \in Procs :
        pc[p] = "mi_open" => (xlsx.by = p /\ xlsx.kind # "empty")

\* A login of resolve p has written its record to the cache file.
WroteRecord(p) ==
    \E i \in 1..Len(trace[p]) : trace[p][i].op = "write" /\ trace[p][i].res = "ok"

\* C30 (as claimed): once two resolves of one vendor have both missed the
\* cache and both finished a login that wrote its record, the cache file
\* holds one complete record and a cache read returns a session.
C30_CacheCompleteAfterTwoLogins ==
    \A p, q \in Procs :
        (p # q /\ VendorOf(p) = VendorOf(q) /\ VendorOf(p) \in SessionVendors
            /\ FirstReadAbsent(p) /\ FirstReadAbsent(q)
            /\ WroteRecord(p) /\ WroteRecord(q))
        => GetToken(cacheFile[VendorOf(p)]).ok
====
